---- MODULE Spec2Model ----
(***************************************************************************)
(* Model of scripts/gui_selector.py: the curses component selector.        *)
(* One interactive session: select_components() -> curses.wrapper ->       *)
(* run_selector -> ComponentSelector.run, a loop of draw() and getch().    *)
(* Indices are 0-based as in the Python source; TLA+ sequences are 1-based *)
(* so component i of the code is components[i + 1].                        *)
(***************************************************************************)
EXTENDS Integers, Sequences, FiniteSets, TLC

VARIABLES
    COMPONENT_DEFINITIONS, \* the static definition table
    components,            \* the selector's working copy (self.components)
    current_index,         \* self.current_index
    scroll_offset,         \* self.scroll_offset
    cancelled,             \* self.cancelled
    key,                   \* the local variable key of run()
    max_y,                 \* terminal height, stdscr.getmaxyx()[0]
    max_x,                 \* terminal width,  stdscr.getmaxyx()[1]
    term,                  \* terminal mode: "normal" or "curses"
    pc,                    \* position of control
    interrupted,           \* a SIGINT was delivered to the process
    line,                  \* a component row being formatted by draw_components
    installer,             \* the os.execv call of main(), once made
    session,               \* number of the select_components() call under way
    ret                    \* what select_components() gave its caller

vars == <<COMPONENT_DEFINITIONS, components, current_index, scroll_offset,
          cancelled, key, max_y, max_x, term, pc, interrupted, line, installer,
          session, ret>>

----------------------------------------------------------------------------
(* Bounds of the model *)

MaxLen == 3        \* longest catalog
MaxH == 10         \* tallest terminal
MaxW == 3          \* widest terminal

(* Input data *)

SLUGS == <<"A", "B", "C", "D", "E", "F", "G", "H", "I", "J", "K", "L", "M", "N", "O", "P">>
Categories == {"X", "Y"}

\* default-selected flags alternate along the catalog: on, off, on, ...
DefaultPatterns == {0}

\* every category sequence over Categories of length 1..MaxLen
Catalogs ==
    UNION { { [i \in 1..n |-> [slug |-> SLUGS[i], category |-> cs[i],
                               selected |-> ((i + p) % 2 = 1)]]
              : cs \in [1..n -> Categories], p \in DefaultPatterns }
            : n \in 1..MaxLen }

Heights == 1..MaxH
Widths == 1..MaxW

(* Key codes returned by stdscr.getch() *)

KEY_UP == 259
KEY_DOWN == 258
KEY_ENTER == 343
KEY_RESIZE == 410
ord_k == 107
ord_j == 106
ord_space == 32
ord_a == 97
ord_A == 65
ord_n == 110
ord_N == 78
ord_newline == 10
ord_cr == 13
ord_q == 113
ord_Q == 81
ESC == 27
ord_x == 120       \* a key bound to nothing
NoKey == 0 - 1     \* key before the first getch()

Keys == {KEY_UP, ord_k, KEY_DOWN, ord_j, ord_space, ord_a, ord_A, ord_n, ord_N,
         ord_newline, KEY_ENTER, ord_cr, ord_q, ord_Q, ESC, KEY_RESIZE, ord_x}

Max(a, b) == IF a >= b THEN a ELSE b
Min(a, b) == IF a <= b THEN a ELSE b

----------------------------------------------------------------------------
(* Layout *)

get_visible_rows(h) == Max(1, h - 8)

\* variant: one header per category label, at its first appearance
RECURSIVE display_items_upto_dedup(_, _)
display_items_upto_dedup(comps, n) ==
    IF n = 0 THEN <<>>
    ELSE LET prev == display_items_upto_dedup(comps, n - 1)
             hdr  == IF \A m \in 1..(n - 1) : comps[m].category # comps[n].category
                     THEN << [kind |-> "category", category |-> comps[n].category, i |-> n - 1] >>
                     ELSE << >>
         IN  prev \o hdr \o << [kind |-> "component", category |-> comps[n].category, i |-> n - 1] >>

RECURSIVE display_items_upto(_, _)
display_items_upto(comps, n) ==
    IF n = 0 THEN <<>>
    ELSE LET prev == display_items_upto(comps, n - 1)
             hdr  == IF n = 1 \/ comps[n].category # comps[n - 1].category
                     THEN << [kind |-> "category", category |-> comps[n].category, i |-> n - 1] >>
                     ELSE << >>
         IN  prev \o hdr \o << [kind |-> "component", category |-> comps[n].category, i |-> n - 1] >>

display_items(comps) == display_items_upto(comps, Len(comps))

\* variant: the catalog index is taken for the display index
current_display_idx_plain(items, cur) == cur

\* 0-based display index of the component row of cur (0 when there is none)
current_display_idx(items, cur) ==
    LET hits == { idx \in 0..(Len(items) - 1) :
                    items[idx + 1].kind = "component" /\ items[idx + 1].i = cur }
    IN  IF hits = {} THEN 0
        ELSE CHOOSE idx \in hits : \A other \in hits : idx <= other

\* variant: every frame re-centers the viewport on the cursor
adjust_scroll_center(so, cdi, vr) == Max(0, cdi - (vr \div 2))

\* variant: the cursor-below branch forgets the "+ 1"
adjust_scroll_short(so, cdi, vr) ==
    IF cdi < so THEN cdi
    ELSE IF cdi >= so + vr THEN cdi - vr
    ELSE so

adjust_scroll(so, cdi, vr) ==
    IF cdi < so THEN cdi
    ELSE IF cdi >= so + vr THEN cdi - vr + 1
    ELSE so

\* display indices the drawing loop of draw_components reaches
drawn_indices(so, vr, h, n) ==
    { idx \in so..(Min(n, so + vr) - 1) : ~(3 + (idx - so) >= h - 4) }

----------------------------------------------------------------------------
(* Drawing: every addstr(y, x, text) is recorded as its target [y, x].     *)
(* curses raises curses.error when the target is outside the window.       *)

TitleLen == 30          \* len("3D Printer Component Installer")
SubtitleLen == 28       \* len("Select components to install")
Instruction0Len == 63   \* len of the first instruction line
Instruction1Len == 42   \* len of the second instruction line

Digits(k) == IF k < 10 THEN 1 ELSE 2

selected_count(comps) == Cardinality({ i \in 1..Len(comps) : comps[i].selected })

\* len(f"Selected: {selected_count}/{len(self.components)}")
count_str_len(comps) == 10 + Digits(selected_count(comps)) + 1 + Digits(Len(comps))

header_ops(w) ==
    { [y |-> 0, x |-> Max(0, (w - TitleLen) \div 2)],
      [y |-> 1, x |-> Max(0, (w - SubtitleLen) \div 2)],
      [y |-> 2, x |-> 0] }

component_ops(items, so, vr, h) ==
    { [y |-> 3 + (idx - so), x |-> IF items[idx + 1].kind = "category" THEN 2 ELSE 0]
      : idx \in drawn_indices(so, vr, h, Len(items)) }

instruction_ops(h, w) ==
    { [y |-> h - 3 + i, x |-> Max(0, (w - (IF i = 0 THEN Instruction0Len ELSE Instruction1Len)) \div 2)]
      : i \in { j \in 0..1 : h - 3 + j < h } }

footer_ops(h, w, comps) ==
    { [y |-> h - 4, x |-> 0] }
    \cup instruction_ops(h, w)
    \cup (IF h - 1 >= 0
          THEN { [y |-> h - 1, x |-> Max(0, (w - count_str_len(comps)) \div 2)] }
          ELSE {})

\* addstr succeeds only on a target inside the window
addstr_ok(op, h, w) == op.y >= 0 /\ op.y < h /\ op.x >= 0 /\ op.x < w

all_ok(ops, h, w) == \A op \in ops : addstr_ok(op, h, w)

----------------------------------------------------------------------------
(* Selection state operations *)

\* variant: the current component is switched on instead of flipped
toggle_current_set(comps, cur) ==
    [comps EXCEPT ![cur + 1].selected = TRUE]

toggle_current(comps, cur) ==
    [comps EXCEPT ![cur + 1].selected = ~comps[cur + 1].selected]

\* variant: the loop stops one component short
select_all_short(comps) ==
    [i \in 1..Len(comps) |-> IF i < Len(comps) THEN [comps[i] EXCEPT !.selected = TRUE]
                                               ELSE comps[i]]

select_all(comps) ==
    [i \in 1..Len(comps) |-> [comps[i] EXCEPT !.selected = TRUE]]

\* variant: the components are rebuilt without their category, which falls
\* back to the dataclass default
deselect_all_rebuilt(comps) ==
    [i \in 1..Len(comps) |-> [slug |-> comps[i].slug, category |-> "General",
                              selected |-> FALSE]]

deselect_all(comps) ==
    [i \in 1..Len(comps) |-> [comps[i] EXCEPT !.selected = FALSE]]

move_up(cur) == IF cur > 0 THEN cur - 1 ELSE cur

\* variant: the cursor wraps to the top instead of stopping
move_down_wrap(cur, n) == (cur + 1) % n

move_down(cur, n) == IF cur < n - 1 THEN cur + 1 ELSE cur

\* variant: selected slugs are collected in reverse catalog order
RECURSIVE selected_slugs_reversed(_)
selected_slugs_reversed(comps) ==
    IF comps = <<>> THEN <<>>
    ELSE IF Head(comps).selected
         THEN selected_slugs_reversed(Tail(comps)) \o <<Head(comps).slug>>
         ELSE selected_slugs_reversed(Tail(comps))

\* [c.slug for c in self.components if c.selected]
RECURSIVE selected_slugs(_)
selected_slugs(comps) ==
    IF comps = <<>> THEN <<>>
    ELSE IF Head(comps).selected
         THEN <<Head(comps).slug>> \o selected_slugs(Tail(comps))
         ELSE selected_slugs(Tail(comps))

None == [tag |-> "None", val |-> <<>>]
Pending == [tag |-> "pending", val |-> <<>>]
KeyboardInterrupt == [tag |-> "KeyboardInterrupt", val |-> <<>>]
CursesError == [tag |-> "curses.error", val |-> <<>>]

\* variant: "return selected or None", an empty selection becomes None
confirm_result_or_none(comps) ==
    IF selected_slugs(comps) = <<>> THEN None
    ELSE [tag |-> "list", val |-> selected_slugs(comps)]

\* the value run() returns on a confirm key
confirm_result(comps) == [tag |-> "list", val |-> selected_slugs(comps)]

\* the value run() returns on a cancel key or an interrupt in getch()
cancel_result == None

\* run_selector's copy of the definition table
working_copy(defs) ==
    [i \in 1..Len(defs) |-> [slug |-> defs[i].slug, category |-> defs[i].category,
                             selected |-> defs[i].selected]]

\* variant: the terminal is restored on a normal return only (no finally)
wrapper_exit_no_finally(how, mode) == IF how = "return" THEN "normal" ELSE mode

\* curses.wrapper leaves through its finally clause: how is "return" or "raise"
wrapper_exit(how, mode) == "normal"

\* no row is being formatted
NoLine == [stage |-> "none"]

\* main() has not replaced the process by the installer
NotInvoked == [invoked |-> FALSE, args |-> <<>>]

\* select_components: "except Exception" turns an error into None;
\* KeyboardInterrupt is not an Exception and passes through
select_components(r) == IF r.tag = "curses.error" THEN None ELSE r

----------------------------------------------------------------------------
(* The session *)

Init ==
    /\ COMPONENT_DEFINITIONS \in Catalogs
    /\ components = <<>>
    /\ current_index = 0
    /\ scroll_offset = 0
    /\ cancelled = FALSE
    /\ key = NoKey
    /\ max_y \in Heights
    /\ max_x \in Widths
    /\ term = "normal"
    /\ pc = "call"
    /\ interrupted = FALSE
    /\ line = NoLine
    /\ installer = NotInvoked
    /\ session = 1
    /\ ret = Pending

\* control leaves curses.wrapper and select_components with outcome r
Leave(r, how) ==
    /\ pc' = "done"
    /\ term' = wrapper_exit(how, term)
    /\ ret' = select_components(r)

\* curses.wrapper: initscr(), noecho(), cbreak(), keypad(1)
WrapperEnter ==
    /\ pc = "call"
    /\ pc' = "init"
    /\ term' = "curses"
    /\ UNCHANGED <<line, installer, session, COMPONENT_DEFINITIONS, components, current_index, scroll_offset,
                   cancelled, key, max_y, max_x, interrupted, ret>>

\* initscr() fails: no terminal mode was acquired
WrapperFail ==
    /\ pc = "call"
    /\ Leave(CursesError, "raise")
    /\ UNCHANGED <<line, installer, session, COMPONENT_DEFINITIONS, components, current_index, scroll_offset,
                   cancelled, key, max_y, max_x, interrupted>>

\* variant: the component list of an earlier session is used again
Construct_cached ==
    /\ pc = "init"
    /\ components' = IF components = <<>> THEN working_copy(COMPONENT_DEFINITIONS)
                                           ELSE components
    /\ current_index' = 0
    /\ scroll_offset' = 0
    /\ cancelled' = FALSE
    /\ pc' = "draw"
    /\ UNCHANGED <<line, installer, session, COMPONENT_DEFINITIONS, key, max_y, max_x,
                   term, interrupted, ret>>

\* run_selector copies the table; ComponentSelector.__init__ succeeds
Construct ==
    /\ pc = "init"
    /\ components' = working_copy(COMPONENT_DEFINITIONS)
    /\ current_index' = 0
    /\ scroll_offset' = 0
    /\ cancelled' = FALSE
    /\ pc' = "draw"
    /\ UNCHANGED <<line, installer, session, COMPONENT_DEFINITIONS, key, max_y, max_x, term, interrupted, ret>>

\* ComponentSelector.__init__ raises curses.error (curs_set, use_default_colors)
ConstructFail ==
    /\ pc = "init"
    /\ components' = working_copy(COMPONENT_DEFINITIONS)
    /\ current_index' = 0
    /\ scroll_offset' = 0
    /\ cancelled' = FALSE
    /\ Leave(CursesError, "raise")
    /\ UNCHANGED <<line, installer, session, COMPONENT_DEFINITIONS, key, max_y, max_x, interrupted>>

\* the scroll offset draw_components computes in the current state
layout_scroll ==
    adjust_scroll(scroll_offset,
                  current_display_idx(display_items(components), current_index),
                  get_visible_rows(max_y))

header_ok == all_ok(header_ops(max_x), max_y, max_x)

components_ok ==
    all_ok(component_ops(display_items(components), layout_scroll,
                         get_visible_rows(max_y), max_y), max_y, max_x)

footer_ok == all_ok(footer_ops(max_y, max_x, components), max_y, max_x)

\* draw(): clear, draw_header, draw_components, draw_footer, refresh
Draw ==
    /\ pc = "draw"
    /\ header_ok /\ components_ok /\ footer_ok
    /\ scroll_offset' = layout_scroll
    /\ pc' = "getch"
    /\ UNCHANGED <<line, installer, session, COMPONENT_DEFINITIONS, components, current_index, cancelled,
                   key, max_y, max_x, term, interrupted, ret>>

\* draw() raises curses.error from an addstr outside the window
DrawFail ==
    /\ pc = "draw"
    /\ ~(header_ok /\ components_ok /\ footer_ok)
    /\ scroll_offset' = IF header_ok THEN layout_scroll ELSE scroll_offset
    /\ Leave(CursesError, "raise")
    /\ UNCHANGED <<line, installer, session, COMPONENT_DEFINITIONS, components, current_index, cancelled,
                   key, max_y, max_x, interrupted>>

\* SIGINT arrives while draw() runs: KeyboardInterrupt outside the try of run()
DrawInterrupt ==
    /\ pc = "draw"
    /\ scroll_offset' \in {scroll_offset, layout_scroll}
    /\ interrupted' = TRUE
    /\ Leave(KeyboardInterrupt, "raise")
    /\ UNCHANGED <<line, installer, session, COMPONENT_DEFINITIONS, components, current_index, cancelled,
                   key, max_y, max_x>>

\* SIGINT arrives while getch() blocks: the except clause of run()
GetchInterrupt ==
    /\ pc = "getch"
    /\ cancelled' = TRUE
    /\ interrupted' = TRUE
    /\ Leave(cancel_result, "return")
    /\ UNCHANGED <<line, installer, session, COMPONENT_DEFINITIONS, components, current_index, scroll_offset,
                   key, max_y, max_x>>

\* variant: a resize event puts the cursor back on the first component
Getch_resize_resets(k) ==
    /\ pc = "getch"
    /\ key' = k
    /\ IF k \in {KEY_UP, ord_k} THEN
            /\ current_index' = move_up(current_index)
            /\ pc' = "draw"
            /\ UNCHANGED <<components, cancelled, max_y, max_x, term, ret>>
       ELSE IF k \in {KEY_DOWN, ord_j} THEN
            /\ current_index' = move_down(current_index, Len(components))
            /\ pc' = "draw"
            /\ UNCHANGED <<components, cancelled, max_y, max_x, term, ret>>
       ELSE IF k = ord_space THEN
            /\ components' = toggle_current(components, current_index)
            /\ pc' = "draw"
            /\ UNCHANGED <<current_index, cancelled, max_y, max_x, term, ret>>
       ELSE IF k \in {ord_a, ord_A} THEN
            /\ components' = select_all(components)
            /\ pc' = "draw"
            /\ UNCHANGED <<current_index, cancelled, max_y, max_x, term, ret>>
       ELSE IF k \in {ord_n, ord_N} THEN
            /\ components' = deselect_all(components)
            /\ pc' = "draw"
            /\ UNCHANGED <<current_index, cancelled, max_y, max_x, term, ret>>
       ELSE IF k \in {ord_newline, KEY_ENTER, 10, ord_cr} THEN
            /\ Leave(confirm_result(components), "return")
            /\ UNCHANGED <<components, current_index, cancelled, max_y, max_x>>
       ELSE IF k \in {ord_q, ord_Q, ESC} THEN
            /\ cancelled' = TRUE
            /\ Leave(cancel_result, "return")
            /\ UNCHANGED <<components, current_index, max_y, max_x>>
       ELSE IF k = KEY_RESIZE THEN
            /\ max_y' \in Heights
            /\ max_x' \in Widths
            /\ current_index' = 0
            /\ pc' = "draw"
            /\ UNCHANGED <<components, cancelled, term, ret>>
       ELSE
            /\ pc' = "draw"
            /\ UNCHANGED <<components, current_index, cancelled, max_y, max_x, term, ret>>
    /\ UNCHANGED <<line, installer, session, COMPONENT_DEFINITIONS, scroll_offset, interrupted>>

\* getch() returns k and the if/elif chain of run() handles it
Getch(k) ==
    /\ pc = "getch"
    /\ key' = k
    /\ IF k \in {KEY_UP, ord_k} THEN
            /\ current_index' = move_up(current_index)
            /\ pc' = "draw"
            /\ UNCHANGED <<components, cancelled, max_y, max_x, term, ret>>
       ELSE IF k \in {KEY_DOWN, ord_j} THEN
            /\ current_index' = move_down(current_index, Len(components))
            /\ pc' = "draw"
            /\ UNCHANGED <<components, cancelled, max_y, max_x, term, ret>>
       ELSE IF k = ord_space THEN
            /\ components' = toggle_current(components, current_index)
            /\ pc' = "draw"
            /\ UNCHANGED <<current_index, cancelled, max_y, max_x, term, ret>>
       ELSE IF k \in {ord_a, ord_A} THEN
            /\ components' = select_all(components)
            /\ pc' = "draw"
            /\ UNCHANGED <<current_index, cancelled, max_y, max_x, term, ret>>
       ELSE IF k \in {ord_n, ord_N} THEN
            /\ components' = deselect_all(components)
            /\ pc' = "draw"
            /\ UNCHANGED <<current_index, cancelled, max_y, max_x, term, ret>>
       ELSE IF k \in {ord_newline, KEY_ENTER, 10, ord_cr} THEN
            /\ Leave(confirm_result(components), "return")
            /\ UNCHANGED <<components, current_index, cancelled, max_y, max_x>>
       ELSE IF k \in {ord_q, ord_Q, ESC} THEN
            /\ cancelled' = TRUE
            /\ Leave(cancel_result, "return")
            /\ UNCHANGED <<components, current_index, max_y, max_x>>
       ELSE IF k = KEY_RESIZE THEN
            /\ max_y' \in Heights
            /\ max_x' \in Widths
            /\ pc' = "draw"
            /\ UNCHANGED <<components, current_index, cancelled, term, ret>>
       ELSE
            /\ pc' = "draw"
            /\ UNCHANGED <<components, current_index, cancelled, max_y, max_x, term, ret>>
    /\ UNCHANGED <<line, installer, session, COMPONENT_DEFINITIONS, scroll_offset, interrupted>>

\* variant: main() goes on to the installer without looking at the result
main_execs_unchecked(r, dry_run, root) == ~dry_run /\ root

\* main() reaches os.execv: not cancelled, not empty, no --dry-run, euid 0
main_execs(r, dry_run, root) ==
    r.tag = "list" /\ r.val # <<>> /\ ~dry_run /\ root

\* main() after select_components() returned: exit, or exec the installer
Main ==
    /\ pc = "done"
    /\ ret.tag # "KeyboardInterrupt"
    /\ \E dry_run \in BOOLEAN, root \in BOOLEAN :
          installer' = IF main_execs(ret, dry_run, root)
                       THEN [invoked |-> TRUE, args |-> ret.val]
                       ELSE installer
    /\ pc' = "exit"
    /\ UNCHANGED <<line, session, COMPONENT_DEFINITIONS, components, current_index,
                   scroll_offset, cancelled, key, max_y, max_x, term, interrupted, ret>>

\* the KeyboardInterrupt that left select_components() ends main() as well
MainInterrupted ==
    /\ pc = "done"
    /\ ret.tag = "KeyboardInterrupt"
    /\ pc' = "exit"
    /\ UNCHANGED <<line, installer, session, COMPONENT_DEFINITIONS, components,
                   current_index, scroll_offset, cancelled, key, max_y, max_x, term,
                   interrupted, ret>>

Next ==
    \/ WrapperEnter
    \/ WrapperFail
    \/ Construct
    \/ ConstructFail
    \/ Draw
    \/ DrawFail
    \/ DrawInterrupt
    \/ GetchInterrupt
    \/ \E k \in Keys : Getch(k)
    \/ Main
    \/ MainInterrupted

Spec == Init /\ [][Next]_vars

----------------------------------------------------------------------------
(* Properties *)

UpKeys == {KEY_UP, ord_k}
DownKeys == {KEY_DOWN, ord_j}
ConfirmKeys == {ord_newline, KEY_ENTER, ord_cr}
CancelKeys == {ord_q, ord_Q, ESC}

\* the selector object exists
Constructed == components # <<>>

\* the step handles key code k read by getch() and loops back to draw()
Handled(ks) == pc = "getch" /\ pc' = "draw" /\ key' \in ks

LastIndex == Len(components) - 1

CurrentDisplayIdx == current_display_idx(display_items(components), current_index)

\* C1: current_index always lies in [0, len(components) - 1]; MoveUp at
\* index 0 and MoveDown at the last index leave it unchanged (no wraparound).
C1_IndexInRange ==
    /\ [](Constructed => (current_index >= 0 /\ current_index <= LastIndex))
    /\ [][ /\ (Handled(UpKeys) /\ current_index = 0) => current_index' = 0
           /\ (Handled(DownKeys) /\ current_index = LastIndex) => current_index' = LastIndex
         ]_vars

\* MoveDown was handled in a one-component catalog: the cursor was on the last index
C1_Witness ==
    /\ pc = "draw" /\ key \in DownKeys
    /\ Len(components) = 1 /\ current_index = LastIndex

\* C2: after every frame's layout computation (the terminal height being that
\* of the frame, whatever resizes came before) the display index of the
\* current component lies in [scroll_offset, scroll_offset + visible_rows).
C2_ScrollInvariant ==
    pc = "getch" =>
        /\ scroll_offset <= CurrentDisplayIdx
        /\ CurrentDisplayIdx < scroll_offset + get_visible_rows(max_y)

\* a MoveDown to the last component made the viewport scroll down
C2_Witness ==
    /\ pc = "getch" /\ key \in DownKeys
    /\ current_index = LastIndex /\ current_index > 0
    /\ get_visible_rows(max_y) > 1
    /\ scroll_offset = CurrentDisplayIdx - get_visible_rows(max_y) + 1
    /\ scroll_offset > 0

\* position (1-based) in the catalog of the component with slug s
PosOf(s) == CHOOSE i \in 1..Len(components) : components[i].slug = s

\* C3: Confirm returns exactly the slugs of the components selected at that
\* moment, each once, in catalog order; the list may be empty.
C3_ConfirmCatalogOrder ==
    (pc = "done" /\ ret.tag = "list") =>
        /\ \A i \in 1..Len(components) :
              components[i].selected <=> (\E j \in 1..Len(ret.val) : ret.val[j] = components[i].slug)
        /\ \A j \in 1..Len(ret.val) : \E i \in 1..Len(components) : ret.val[j] = components[i].slug
        /\ \A j1, j2 \in 1..Len(ret.val) : j1 < j2 => PosOf(ret.val[j1]) < PosOf(ret.val[j2])

\* catalog A(on), B(off), C(on); MoveDown, ToggleCurrent, Confirm gave [A, B, C]
C3_Witness ==
    /\ pc = "done" /\ key \in ConfirmKeys
    /\ Len(COMPONENT_DEFINITIONS) = 3
    /\ COMPONENT_DEFINITIONS[1].selected /\ ~COMPONENT_DEFINITIONS[2].selected
    /\ COMPONENT_DEFINITIONS[3].selected
    /\ current_index = 1
    /\ ret = [tag |-> "list", val |-> <<"A", "B", "C">>]

\* C4: a cancel key (q, Q, escape) returns None and sets cancelled; a confirm
\* key returns a list, never None, and never sets cancelled, even when the
\* selection is empty.
C4_CancelDistinct ==
    pc = "done" =>
        /\ key \in CancelKeys => (ret = None /\ cancelled)
        /\ key \in ConfirmKeys => (ret.tag = "list" /\ ret # None /\ ~cancelled)

\* Confirm was pressed with nothing selected
C4_Witness ==
    /\ pc = "done" /\ key \in ConfirmKeys
    /\ ret = [tag |-> "list", val |-> <<>>]
    /\ \A i \in 1..Len(components) : ~components[i].selected

AllSlugs == [i \in 1..Len(components) |-> components[i].slug]

\* the step is a Confirm right after the frame that followed key code in ks
ConfirmAfter(ks) == pc = "getch" /\ key \in ks /\ pc' = "done" /\ key' \in ConfirmKeys

\* C5: SelectAll immediately followed by Confirm returns every slug in catalog
\* order; DeselectAll immediately followed by Confirm returns the empty list.
C5_AllThenConfirm ==
    [][ /\ ConfirmAfter({ord_a, ord_A}) => ret' = [tag |-> "list", val |-> AllSlugs]
        /\ ConfirmAfter({ord_n, ord_N}) => ret' = [tag |-> "list", val |-> <<>>]
      ]_vars

\* the full list was confirmed from a catalog with a default-off component,
\* with the cursor away from the top
C5_Witness ==
    /\ pc = "done" /\ key \in ConfirmKeys
    /\ ret = [tag |-> "list", val |-> AllSlugs]
    /\ Len(components) >= 2 /\ current_index > 0
    /\ \E i \in 1..Len(COMPONENT_DEFINITIONS) : ~COMPONENT_DEFINITIONS[i].selected

\* C6: ToggleCurrent flips the flag of the component at current_index and of
\* no other; a second ToggleCurrent gives back the selection state before.
C6_ToggleInvolution ==
    [][ Handled({ord_space}) =>
          /\ Len(components') = Len(components)
          /\ \A i \in 1..Len(components) :
                /\ components'[i].selected =
                      (IF i = current_index + 1 THEN ~components[i].selected
                                                ELSE components[i].selected)
                /\ components'[i].slug = components[i].slug
                /\ components'[i].category = components[i].category
          /\ toggle_current(components', current_index') = components
      ]_vars

\* space was handled: the flags differ from the defaults at the cursor only
C6_Witness ==
    /\ pc = "draw" /\ key = ord_space
    /\ Len(components) >= 2
    /\ \A i \in 1..Len(components) :
          (components[i].selected # COMPONENT_DEFINITIONS[i].selected) <=> (i = current_index + 1)

\* C7: an interrupt delivered while the session is active ends it Cancelled:
\* None is returned and cancelled is set.
C7_InterruptCancels ==
    interrupted => (pc \in {"done", "exit"} /\ ret = None /\ cancelled)

\* C8: whenever control is back at the caller of select_components the
\* terminal is in its pre-session mode.
C8_TerminalRestored ==
    pc = "done" => term = "normal"

\* the session ended by an error raised while rendering after a key was handled
C8_Witness ==
    /\ pc = "done" /\ term = "normal"
    /\ Constructed /\ key # NoKey
    /\ ret = None /\ ~cancelled /\ ~interrupted

\* C9: every draw operation of a frame targets a row in [0, H) and a column
\* in [0, W), for every H >= 1 and W >= 1.
C9_RenderInBounds ==
    pc = "draw" => (header_ok /\ components_ok /\ footer_ok)

\* display indices drawn in the frame on screen
Drawn ==
    drawn_indices(scroll_offset, get_visible_rows(max_y), max_y, Len(display_items(components)))

\* [scroll_offset, scroll_offset + visible_rows) clipped to the sequence length
Slice ==
    { idx \in 0..(Len(display_items(components)) - 1) :
        idx >= scroll_offset /\ idx < scroll_offset + get_visible_rows(max_y) }

\* C10: the rows drawn in a frame are exactly the slice; at least one row is
\* drawn and the current component's row is among them.
C10_DrawnIsSlice ==
    pc = "getch" =>
        /\ Drawn = Slice
        /\ Drawn # {}
        /\ CurrentDisplayIdx \in Drawn

----------------------------------------------------------------------------
(* Row text formatting of draw_components, as a function of the terminal   *)
(* width.  Strings are sequences of one-character strings.                 *)

MaxDescLen == 16   \* longest description

ELLIPSIS == <<".", ".", ".">>

\* s[:k] of Python, k negative included
py_prefix(s, k) ==
    IF k >= 0 THEN SubSeq(s, 1, Min(k, Len(s)))
    ELSE SubSeq(s, 1, Max(0, Len(s) + k))

checkbox(selected) == IF selected THEN <<"[", "X", "]">> ELSE <<"[", " ", "]">>

\* f"  {checkbox} {name}"
name_part(selected, name) == <<" ", " ">> \o checkbox(selected) \o <<" ">> \o name

available_width(w, np) == w - Len(np) - 5

\* variant: the ellipsis is appended to a full-width prefix
truncate_desc_long(desc, aw) ==
    IF Len(desc) > aw THEN py_prefix(desc, aw) \o ELLIPSIS ELSE desc

\* the description as shown when there is room for one
truncate_desc(desc, aw) ==
    IF Len(desc) > aw THEN py_prefix(desc, aw - 3) \o ELLIPSIS ELSE desc

\* the description part of the row; empty when it is left out
shown_desc(w, selected, name, desc) ==
    LET aw == available_width(w, name_part(selected, name))
    IN  IF aw > 10 THEN truncate_desc(desc, aw) ELSE <<>>

\* the text handed to addstr for a component row
component_line(w, selected, name, desc) ==
    LET np == name_part(selected, name)
        aw == available_width(w, np)
        ln == IF aw > 10 THEN np \o <<" ", "-", " ">> \o truncate_desc(desc, aw) ELSE np
    IN  py_prefix(ln, w - 1)

FormatNames == { <<"K", "A", "M", "P">>, <<"S", "h", "a", "k", "e", "T", "u", "n", "e">> }
FormatDescs == { [i \in 1..n |-> "d"] : n \in 0..MaxDescLen }
FormatWidths == 24..(MaxDescLen + 18)

FormatInit ==
    /\ COMPONENT_DEFINITIONS = <<>>
    /\ components = <<>>
    /\ current_index = 0
    /\ scroll_offset = 0
    /\ cancelled = FALSE
    /\ key = NoKey
    /\ max_y \in {MaxH}
    /\ max_x \in FormatWidths
    /\ term = "curses"
    /\ pc = "format"
    /\ interrupted = FALSE
    /\ line \in { [stage |-> "input", selected |-> sel, name |-> nm, desc |-> d,
                   shown |-> <<>>, text |-> <<>>]
                  : sel \in BOOLEAN, nm \in FormatNames, d \in FormatDescs }
    /\ installer = NotInvoked
    /\ session = 1
    /\ ret = Pending

\* one component row is formatted for the current width
FormatRow ==
    /\ pc = "format"
    /\ line.stage = "input"
    /\ line' = [line EXCEPT !.stage = "drawn",
                            !.shown = shown_desc(max_x, line.selected, line.name, line.desc),
                            !.text = component_line(max_x, line.selected, line.name, line.desc)]
    /\ UNCHANGED <<COMPONENT_DEFINITIONS, components, current_index, scroll_offset,
                   cancelled, key, max_y, max_x, term, pc, interrupted, installer,
                   session, ret>>

FormatNext == FormatRow

SpecFormat == FormatInit /\ [][FormatNext]_vars

\* width budget of the row in line
Budget == available_width(max_x, name_part(line.selected, line.name))

\* the shown description is Budget characters, a prefix of the description
\* followed by the ellipsis, and the row text carries it whole
TruncatedToBudget ==
    /\ Len(line.shown) = Budget
    /\ SubSeq(line.shown, Budget - 2, Budget) = ELLIPSIS
    /\ SubSeq(line.shown, 1, Budget - 3) = SubSeq(line.desc, 1, Budget - 3)
    /\ line.text = name_part(line.selected, line.name) \o <<" ", "-", " ">> \o line.shown

\* C11 as stated: with a budget B above the threshold, every description
\* longer than B - 3 characters is rendered as exactly B characters ending
\* in the ellipsis.
C11_TruncationAsStated ==
    (line.stage = "drawn" /\ Budget > 10 /\ Len(line.desc) > Budget - 3) => TruncatedToBudget

\* C11 amended: with a budget B above the threshold, every description
\* longer than B characters is rendered as exactly B characters ending in
\* the ellipsis.
C11_Truncation ==
    (line.stage = "drawn" /\ Budget > 10 /\ Len(line.desc) > Budget) => TruncatedToBudget

\* a description one character too long was cut
C11_Witness ==
    /\ line.stage = "drawn" /\ Budget > 10
    /\ Len(line.desc) = Budget + 1
    /\ Len(line.shown) = Budget
    /\ line.shown # line.desc

----------------------------------------------------------------------------
(* Properties of the loop, the layout and main() *)

\* the loop of run() has ended
Ended == pc \in {"done", "exit"}

\* C12: the loop ends only by a Confirm key, a Cancel key or an interrupt:
\* once at least one key was read, a session that has ended was ended by
\* the last key read being one of those, or by an interrupt; every other
\* event keeps it Active.
C12_EndsOnlyByConfirmOrCancel ==
    (Ended /\ key # NoKey) => (key \in ConfirmKeys \cup CancelKeys \/ interrupted)

\* C17: the installer is invoked only after a Confirm, with exactly the list
\* select_components returned; never after a cancellation, an interrupt or
\* an error in the selector, and the caller never receives an error object.
C17_InstallerOnlyAfterConfirm ==
    /\ ret.tag # "curses.error"
    /\ installer.invoked =>
          /\ pc = "exit"
          /\ ret.tag = "list" /\ installer.args = ret.val
          /\ key \in ConfirmKeys
          /\ ~cancelled /\ ~interrupted
          /\ \A j \in 1..Len(installer.args) :
                \E i \in 1..Len(components) :
                    components[i].selected /\ components[i].slug = installer.args[j]

\* the installer was started with two slugs after a Confirm
C17_Witness ==
    /\ installer.invoked /\ Len(installer.args) = 2
    /\ key \in ConfirmKeys /\ ret.tag = "list"

\* the step is one completed frame
DrawStep == pc = "draw" /\ pc' = "getch"

\* C13: a frame leaves scroll_offset alone when the current row is already
\* in the viewport, else sets it to the current display index (cursor above)
\* or to current display index - visible_rows + 1 (cursor below); computing
\* the layout again in the state after the frame changes nothing.
C13_MinimalScroll ==
    [][ DrawStep =>
          LET cdi == CurrentDisplayIdx
              vr  == get_visible_rows(max_y)
          IN  /\ (scroll_offset <= cdi /\ cdi < scroll_offset + vr) => scroll_offset' = scroll_offset
              /\ cdi < scroll_offset => scroll_offset' = cdi
              /\ cdi >= scroll_offset + vr => scroll_offset' = cdi - vr + 1
              /\ layout_scroll' = scroll_offset'
      ]_vars

\* a MoveUp took the cursor above a viewport of two or more rows, which
\* followed it by the least amount
C13_Witness ==
    /\ pc = "getch" /\ key \in UpKeys
    /\ get_visible_rows(max_y) >= 2
    /\ scroll_offset = CurrentDisplayIdx /\ scroll_offset >= 2
    /\ current_index < LastIndex

----------------------------------------------------------------------------
(* Navigation on long catalogs in a terminal of fixed size *)

MaxNavH == 14      \* tallest terminal of the navigation runs

\* the definition table of the source
COMPONENT_TABLE ==
    << [slug |-> "guppyscreen", category |-> "Display & Interface", selected |-> TRUE],
       [slug |-> "mainsail", category |-> "Display & Interface", selected |-> TRUE],
       [slug |-> "ustreamer", category |-> "Camera & Streaming", selected |-> TRUE],
       [slug |-> "timelapse", category |-> "Camera & Streaming", selected |-> TRUE],
       [slug |-> "timelapseh264", category |-> "Camera & Streaming", selected |-> FALSE],
       [slug |-> "macros", category |-> "Macros & Configuration", selected |-> TRUE],
       [slug |-> "macros_only", category |-> "Macros & Configuration", selected |-> FALSE],
       [slug |-> "start_print", category |-> "Macros & Configuration", selected |-> FALSE],
       [slug |-> "overrides", category |-> "Macros & Configuration", selected |-> FALSE],
       [slug |-> "kamp", category |-> "Macros & Configuration", selected |-> FALSE],
       [slug |-> "resonance", category |-> "Calibration & Tuning", selected |-> TRUE],
       [slug |-> "shaketune", category |-> "Calibration & Tuning", selected |-> TRUE],
       [slug |-> "cleanup", category |-> "System Services", selected |-> TRUE] >>

\* twelve components in three categories: fifteen display items
TwelveCatalog ==
    [i \in 1..12 |-> [slug |-> SLUGS[i],
                      category |-> IF i <= 4 THEN "X" ELSE IF i <= 8 THEN "Y" ELSE "Z",
                      selected |-> (i % 2 = 1)]]

NavCatalogs == {COMPONENT_TABLE, TwelveCatalog} \cup Catalogs
NavHeights == 8..MaxNavH
NavKeys == {KEY_UP, ord_k, KEY_DOWN, ord_j}

NavInit ==
    /\ COMPONENT_DEFINITIONS \in NavCatalogs
    /\ components = <<>>
    /\ current_index = 0
    /\ scroll_offset = 0
    /\ cancelled = FALSE
    /\ key = NoKey
    /\ max_y \in NavHeights
    /\ max_x \in {80}
    /\ term = "normal"
    /\ pc = "call"
    /\ interrupted = FALSE
    /\ line = NoLine
    /\ installer = NotInvoked
    /\ session = 1
    /\ ret = Pending

\* a session in which only the navigation keys are pressed: no resize
NavNext ==
    \/ WrapperEnter
    \/ Construct
    \/ Draw
    \/ \E k \in NavKeys : Getch(k)

SpecNav == NavInit /\ [][NavNext]_vars

DisplayCount == Len(display_items(components))

\* C14: in a terminal of fixed height, from the initial state, whenever the
\* cursor has been moved to the last component and the frame is drawn, the
\* last display item is the last visible row: scroll_offset = D - visible_rows
\* when the display item count D exceeds visible_rows.
C14_LastRowAtBottom ==
    (pc = "getch" /\ current_index = LastIndex /\ DisplayCount > get_visible_rows(max_y))
        => scroll_offset = DisplayCount - get_visible_rows(max_y)

\* visible_rows 5, 12 components and 3 headers, cursor on the last: offset 10
C14_Witness ==
    /\ pc = "getch" /\ key \in DownKeys
    /\ Len(components) = 12 /\ DisplayCount = 15
    /\ get_visible_rows(max_y) = 5
    /\ current_index = LastIndex
    /\ scroll_offset = 10

----------------------------------------------------------------------------
(* Properties of the key handlers and of the display items *)

\* C15: handling an unknown key or a resize event changes none of
\* current_index, the selected flags and the cancelled flag, raises nothing
\* and leaves the session Active, on its way to the next frame.
C15_UnknownAndResizeInert ==
    [][ (pc = "getch" /\ key' \in {ord_x, KEY_RESIZE} /\ interrupted' = interrupted) =>
          /\ current_index' = current_index
          /\ components' = components
          /\ cancelled' = cancelled
          /\ pc' = "draw"
          /\ ret' = ret
      ]_vars

\* a resize event was handled with the cursor away from the top and the
\* selection away from the defaults
C15_Witness ==
    /\ pc = "draw" /\ key = KEY_RESIZE
    /\ current_index > 0
    /\ components # working_copy(COMPONENT_DEFINITIONS)
    /\ ~cancelled /\ ret = Pending

\* component i (0-based) opens a category section
Boundary(i) ==
    i = 0 \/ components[i + 1].category # components[i].category

\* 1-based place of the row of component i: one place per component and per
\* section opened up to and including i
RowPlace(i) == (i + 1) + Cardinality({ j \in 0..i : Boundary(j) })

\* C16: the display items are, in catalog order, one row per component,
\* each preceded by a header of its category exactly when its category
\* differs from the component before it (always for the first).
C16_AdjacencyHeaders ==
    Constructed =>
        LET items == display_items(components)
            n     == Len(components)
        IN  /\ Len(items) = n + Cardinality({ j \in 0..(n - 1) : Boundary(j) })
            /\ \A i \in 0..(n - 1) :
                  /\ items[RowPlace(i)].kind = "component"
                  /\ items[RowPlace(i)].i = i
                  /\ Boundary(i) =>
                        /\ items[RowPlace(i) - 1].kind = "category"
                        /\ items[RowPlace(i) - 1].category = components[i + 1].category
                  /\ (~Boundary(i)) => items[RowPlace(i) - 1].kind = "component"

\* categories X, Y, X: three headers and three rows, X printed twice
C16_Witness ==
    /\ Constructed /\ Len(components) = 3
    /\ components[1].category = "X" /\ components[2].category = "Y"
    /\ components[3].category = "X"
    /\ Len(display_items(components)) = 6
    /\ display_items(components)[5].kind = "category"
    /\ display_items(components)[5].category = "X"

SelectionKeys == {ord_space, ord_a, ord_A, ord_n, ord_N}

\* C19: MoveUp and MoveDown change no selected flag; ToggleCurrent,
\* SelectAll and DeselectAll change neither current_index nor scroll_offset;
\* no step of a session changes a component's slug, category or place in
\* the catalog, or the catalog's length.
C19_OperationFrames ==
    [][ /\ Handled(UpKeys \cup DownKeys) => components' = components
        /\ Handled(SelectionKeys) =>
              (current_index' = current_index /\ scroll_offset' = scroll_offset)
        /\ Constructed =>
              /\ Len(components') = Len(components)
              /\ \A i \in 1..Len(components) :
                    /\ components'[i].slug = components[i].slug
                    /\ components'[i].category = components[i].category
      ]_vars

\* DeselectAll was handled with the cursor and the viewport moved down
C19_Witness ==
    /\ pc = "draw" /\ key \in {ord_n, ord_N}
    /\ current_index > 0 /\ scroll_offset > 0
    /\ \A i \in 1..Len(components) : ~components[i].selected
    /\ \E i \in 1..Len(components) : components[i].category = "Y"

\* C20: after every frame 0 <= scroll_offset <= display index of the current
\* row < number of display items; the first display item is a category
\* header, so that index is at least 1, and once scroll_offset is positive
\* it stays positive for the rest of the session.
C20_ScrollNeverBackToZero ==
    /\ [](pc = "getch" =>
            /\ 0 <= scroll_offset
            /\ scroll_offset <= CurrentDisplayIdx
            /\ CurrentDisplayIdx < DisplayCount
            /\ CurrentDisplayIdx >= 1
            /\ display_items(components)[1].kind = "category")
    /\ [][scroll_offset > 0 => scroll_offset' > 0]_vars

\* the cursor is back on the first component of a viewport of two or more
\* rows, and the first header stays scrolled out
C20_Witness ==
    /\ pc = "getch" /\ key \in UpKeys
    /\ current_index = 0
    /\ get_visible_rows(max_y) >= 2
    /\ scroll_offset = 1
    /\ 0 \notin Drawn

----------------------------------------------------------------------------
(* Several sessions in one process: select_components() is called again    *)

MaxSessions == 2   \* calls of select_components() in one run

SessionKeys == {KEY_DOWN, ord_space, ord_n, ord_newline, ord_q}

SessionInit ==
    /\ COMPONENT_DEFINITIONS \in Catalogs
    /\ components = <<>>
    /\ current_index = 0
    /\ scroll_offset = 0
    /\ cancelled = FALSE
    /\ key = NoKey
    /\ max_y \in {MaxH - 1, MaxH}
    /\ max_x \in {MaxW}
    /\ term = "normal"
    /\ pc = "call"
    /\ interrupted = FALSE
    /\ line = NoLine
    /\ installer = NotInvoked
    /\ session = 1
    /\ ret = Pending

\* the caller calls select_components() once more; the selector of the
\* session before is garbage, shown here as the values it was left with
CallAgain ==
    /\ pc = "done"
    /\ session < MaxSessions
    /\ session' = session + 1
    /\ pc' = "call"
    /\ key' = NoKey
    /\ interrupted' = FALSE
    /\ ret' = Pending
    /\ UNCHANGED <<line, installer, COMPONENT_DEFINITIONS, components, current_index,
                   scroll_offset, cancelled, max_y, max_x, term>>

SessionNext ==
    \/ WrapperEnter
    \/ Construct
    \/ Draw
    \/ GetchInterrupt
    \/ \E k \in SessionKeys : Getch(k)
    \/ CallAgain

SpecSessions == SessionInit /\ [][SessionNext]_vars

\* C18: no step changes the definition table, and every session starts
\* with current_index 0, scroll_offset 0, cancelled false and every selected
\* flag at its default, whatever the sessions before it did.
C18_FreshWorkingCopy ==
    /\ [][COMPONENT_DEFINITIONS' = COMPONENT_DEFINITIONS]_vars
    /\ [][ (pc = "init" /\ pc' = "draw") =>
              /\ current_index' = 0
              /\ scroll_offset' = 0
              /\ cancelled' = FALSE
              /\ Len(components') = Len(COMPONENT_DEFINITIONS)
              /\ \A i \in 1..Len(COMPONENT_DEFINITIONS) :
                    /\ components'[i].selected = COMPONENT_DEFINITIONS[i].selected
                    /\ components'[i].slug = COMPONENT_DEFINITIONS[i].slug
                    /\ components'[i].category = COMPONENT_DEFINITIONS[i].category
         ]_vars

\* a second session is about to be constructed over what the first one left:
\* cursor moved, viewport scrolled, flags changed, cancelled set
C18_Stale ==
    /\ session = 2 /\ pc = "init"
    /\ current_index > 0 /\ scroll_offset > 0 /\ cancelled
    /\ components # working_copy(COMPONENT_DEFINITIONS)

\* the second session has started from the defaults
C18_Witness ==
    /\ session = 2 /\ pc = "draw" /\ key = NoKey
    /\ Len(components) >= 2
    /\ components = working_copy(COMPONENT_DEFINITIONS)
    /\ current_index = 0 /\ scroll_offset = 0 /\ ~cancelled

====
